---- MODULE Spec2Model ----
(***************************************************************************)
(* Model of the static site generator in src/main.go: one build run is a   *)
(* linear pipeline over the file system (reset public/, copy the           *)
(* stylesheet, load every post, sort by date, render post pages, index     *)
(* and about page).  The build may be run again on the same inputs.        *)
(***************************************************************************)
EXTENDS Integers, Sequences, FiniteSets, TLC

(* ------------------------------ bounds --------------------------------- *)
\* number of candidate post files posts/<stem>.md
MaxPosts == 3
\* dates are instants 1..MaxDate (a larger number is a later instant)
MaxDate == 3

(* --------------------------- exit statuses ----------------------------- *)
ExitOK == 0
ExitFatal == 1
ExitPanic == 2

(* ------------------------------ strings -------------------------------- *)
\* Strings are sequences of one-character strings.
PostsPrefix == <<"p", "o", "s", "t", "s", "/">>
MdSuffix == <<".", "m", "d">>
HtmlSuffix == <<".", "h", "t", "m", "l">>
PublicDir == <<"p", "u", "b", "l", "i", "c">>
PublicPostsDir == PublicDir \o <<"/">> \o <<"p", "o", "s", "t", "s">>
StylePath == PublicDir \o <<"/", "s", "t", "y", "l", "e", ".", "c", "s", "s">>
StyleSrcPath == <<"s", "t", "a", "t", "i", "c", "/", "s", "t", "y", "l", "e", ".", "c", "s", "s">>
IndexPath == PublicDir \o <<"/", "i", "n", "d", "e", "x">> \o HtmlSuffix
AboutPath == PublicDir \o <<"/", "a", "b", "o", "u", "t">> \o HtmlSuffix

HasPrefix(s, p) == Len(s) >= Len(p) /\ SubSeq(s, 1, Len(p)) = p
HasSuffix(s, x) == Len(s) >= Len(x) /\ SubSeq(s, Len(s) - Len(x) + 1, Len(s)) = x
TrimPrefix(s, p) == IF HasPrefix(s, p) THEN SubSeq(s, Len(p) + 1, Len(s)) ELSE s
TrimSuffix(s, x) == IF HasSuffix(s, x) THEN SubSeq(s, 1, Len(s) - Len(x)) ELSE s

\* The file names of the posts directory, in lexical order (the order in
\* which filepath.Glob returns them).  The stems exercise the trimming:
\* one ends in ".md" itself, one equals the directory name, one is empty.
StemTable ==
  << <<>>,
     <<"a">>,
     <<"a", ".", "m", "d">>,
     <<"p", "o", "s", "t", "s">>,
     <<"z">> >>
Stem(k) == StemTable[k]
Filename(k) == PostsPrefix \o Stem(k) \o MdSuffix
\* the slug an author wrote into the front-matter (every post carries the same one)
FrontMatterSlug == <<"x">>

(* ------------------------------ state ---------------------------------- *)
VARIABLES
  nPosts,      \* input: posts/ holds the files Filename(1) .. Filename(nPosts)
  dates,       \* input: dates[k], the front-matter date of file k
  bad,         \* input: the first post file that cannot be loaded (0: none)
  cssPresent,  \* input: static/style.css can be opened
  sortMemo,    \* what sort.Slice returns on this input (<<>>: not yet called)
  fs,          \* the output tree: [dirs: set of paths, files: path -> content]
  pc,          \* position of the run in main
  filenames,   \* getAllpostData: result of Glob
  i,           \* loop index of the loop in progress
  postsData,   \* getAllpostData's posts, then main's postsData
  open,        \* file handles currently open
  status,      \* exit status (meaningful when pc = "exit")
  err,         \* the step that failed ("none" while no step failed)
  log,         \* the steps completed in this run, in order
  envFault,    \* an I/O or template fault outside the inputs hit this run
  prev,        \* the outcome of the previous run (its tree is kept for
               \* comparison when no outside fault hit that run)
  hadFiles     \* the output tree held files when this run started

given == <<nPosts, dates, bad, cssPresent, hadFiles>>
vars == <<nPosts, dates, bad, cssPresent, sortMemo, fs, pc, filenames, i,
          postsData, open, status, err, log, envFault, prev, hadFiles>>

(* --------------------------- file contents ----------------------------- *)
Content(kind, slug, date, posts) ==
  [kind |-> kind, slug |-> slug, date |-> date, posts |-> posts]
Empty == Content("empty", <<>>, 0, <<>>)
Partial == Content("partial", <<>>, 0, <<>>)
Stale == Content("stale", <<>>, 0, <<>>)
CssContent == Content("css", <<>>, 0, <<>>)
AboutContent == Content("about", <<>>, 0, <<>>)
PostPage(p) == Content("post", p.slug, p.date, <<p.content>>)
IndexPage(ps) == Content("index", <<>>, 0, ps)

PostPath(p) == PublicPostsDir \o <<"/">> \o p.slug \o HtmlSuffix

NoTree == [dirs |-> {}, files |-> <<>>]
EmptyTree == [dirs |-> {PublicDir, PublicPostsDir}, files |-> <<>>]
WriteFile(f, path, c) ==
  [f EXCEPT !.files =
     [q \in (DOMAIN f.files) \cup {path} |-> IF q = path THEN c ELSE f.files[q]]]
\* what an earlier build of other inputs, or the user, left behind
StaleTree ==
  [dirs |-> {PublicDir, PublicPostsDir},
   files |-> [q \in {StylePath, IndexPath, AboutPath,
                     PublicDir \o <<"/", "o", "l", "d">>,
                     PublicPostsDir \o <<"/", "a">> \o HtmlSuffix,
                     PublicPostsDir \o <<"/", "g", "o", "n", "e">> \o HtmlSuffix}
                |-> Stale]]
\* public/ exists without its posts subdirectory
StrayTree ==
  [dirs |-> {PublicDir},
   files |-> [q \in {IndexPath, PublicDir \o <<"/", "o", "l", "d">>} |-> Stale]]
InitialTrees == {StaleTree, StrayTree}


(* ----------------------- library operations ---------------------------- *)
\* (variant: the old tree is kept)
RemoveAllKeep(f) == f
\* os.RemoveAll("public") on success
RemoveAllTree(f) == NoTree
\* os.RemoveAll on failure: nothing was removed, or the posts subtree was
\* emptied before the error
RemoveAllPartial(f) ==
  {f,
   [f EXCEPT !.files =
      [q \in {r \in DOMAIN f.files : ~HasPrefix(r, PublicPostsDir \o <<"/">>)}
         |-> f.files[q]]]}
\* os.MkdirAll: creates the directory unless it exists
MkdirAllTree(f, d) == [f EXCEPT !.dirs = @ \cup {d}]
\* os.Mkdir: fails when the directory exists
MkdirAllowed(f, d) == d \notin f.dirs
\* filepath.Glob("posts/*.md"): the matching names in lexical order
Glob(n) == [k \in 1 .. n |-> Filename(k)]

\* (variant: Before instead of After)
LessBefore(a, b) == a.date < b.date
\* PostMetadata.Date.After
Less(a, b) == a.date > b.date
Perms(s) ==
  {[k \in 1 .. Len(s) |-> s[p[k]]] : p \in Permutations(1 .. Len(s))}
\* every result sort.Slice may return: a permutation in which no element is
\* less than one before it (equal elements in any order)
SortOutcomes(s) ==
  {t \in Perms(s) :
     \A j \in 1 .. Len(t) : \A k \in 1 .. Len(t) : j < k => ~Less(t[k], t[j])}
\* (variant: an order of equal elements that differs from run to run)
SortAny(memo, s) == SortOutcomes(s)
\* sort.Slice is a deterministic algorithm: the same input gives the same
\* result in every run
SortSlice(memo, s) == IF Len(memo) = Len(s) /\ Len(s) > 0 THEN {memo} ELSE SortOutcomes(s)

\* getpostData: the metadata as parsed from the front-matter of file k
getpostData(k) == [slug |-> FrontMatterSlug, date |-> dates[k], content |-> k]
\* getAllpostData, lines 98-99 and 121-123
SlugOf(filename) == TrimSuffix(TrimPrefix(filename, PostsPrefix), MdSuffix)
\* (variant: the front-matter slug is kept)
KeepSlug(postData, slug) == postData
WithSlug(postData, slug) == [postData EXCEPT !.slug = slug]

(* ------------------------------- Init ---------------------------------- *)
NoPrev == [valid |-> FALSE, fs |-> NoTree, status |-> ExitOK, envFault |-> FALSE]

Init ==
  /\ nPosts \in 0 .. MaxPosts
  /\ dates \in [1 .. nPosts -> 1 .. MaxDate]
  /\ bad \in 0 .. nPosts
  /\ cssPresent \in BOOLEAN
  /\ sortMemo = <<>>
  /\ fs \in InitialTrees
  /\ pc = "removeAll"
  /\ filenames = <<>>
  /\ i = 1
  /\ postsData = <<>>
  /\ open = {}
  /\ status = ExitOK
  /\ err = "none"
  /\ log = <<>>
  /\ envFault = FALSE
  /\ prev = NoPrev
  /\ hadFiles = (DOMAIN fs.files # {})

(* ------------------------------ helpers -------------------------------- *)
\* log.Fatal: os.Exit(1); the operating system closes whatever is open
Fatal(e) == pc' = "exit" /\ status' = ExitFatal /\ err' = e /\ open' = {}
\* template.Must: panic
Panic(e) == pc' = "exit" /\ status' = ExitPanic /\ err' = e /\ open' = {}
Done(step) == log' = Append(log, step)
NoExit == UNCHANGED <<status, err>>

(* ------------------------------- main ---------------------------------- *)
\* main, lines 44-47
RemoveAll ==
  /\ pc = "removeAll"
  /\ \E ok \in BOOLEAN :
       IF ok
       THEN /\ fs' = RemoveAllTree(fs)
            /\ Done(<<"removeAll", 0>>)
            /\ pc' = "mkdirAll"
            /\ UNCHANGED <<status, err, open, envFault>>
       ELSE /\ \E r \in RemoveAllPartial(fs) : fs' = r
            /\ Fatal("removeAll")
            /\ envFault' = TRUE
            /\ UNCHANGED log
  /\ UNCHANGED <<given, sortMemo, filenames, i, postsData, prev>>

\* main, lines 49-52
MkdirAll ==
  /\ pc = "mkdirAll"
  /\ \E ok \in BOOLEAN :
       IF ok
       THEN /\ fs' = MkdirAllTree(fs, PublicDir)
            /\ Done(<<"mkdirAll", 0>>)
            /\ pc' = "mkdir"
            /\ UNCHANGED <<status, err, open, envFault>>
       ELSE /\ Fatal("mkdirAll")
            /\ envFault' = TRUE
            /\ UNCHANGED <<fs, log>>
  /\ UNCHANGED <<given, sortMemo, filenames, i, postsData, prev>>

\* main, lines 54-57
Mkdir ==
  /\ pc = "mkdir"
  /\ \E ok \in BOOLEAN :
       IF ok /\ MkdirAllowed(fs, PublicPostsDir)
       THEN /\ fs' = MkdirAllTree(fs, PublicPostsDir)
            /\ Done(<<"mkdir", 0>>)
            /\ pc' = "copyOpen"
            /\ UNCHANGED <<status, err, open, envFault>>
       ELSE /\ Fatal("mkdir")
            /\ envFault' = TRUE
            /\ UNCHANGED <<fs, log>>
  /\ UNCHANGED <<given, sortMemo, filenames, i, postsData, prev>>

\* (variant: the destination is created before the source is opened)
CopyCreateFirst ==
  /\ pc = "copyOpen"
  /\ IF cssPresent
     THEN /\ open' = open \cup {StyleSrcPath}
          /\ pc' = "copyCreate"
          /\ NoExit
          /\ UNCHANGED fs
     ELSE /\ fs' = WriteFile(fs, StylePath, Empty)
          /\ Fatal("copy")
  /\ UNCHANGED <<given, sortMemo, filenames, i, postsData, log, envFault, prev>>

\* copyFile, lines 234-239 (and main, lines 60-62, on failure)
CopyOpenSrc ==
  /\ pc = "copyOpen"
  /\ IF cssPresent
     THEN /\ open' = open \cup {StyleSrcPath}
          /\ pc' = "copyCreate"
          /\ NoExit
     ELSE Fatal("copy")
  /\ UNCHANGED <<given, sortMemo, fs, filenames, i, postsData, log, envFault, prev>>

\* copyFile, lines 241-246
CopyCreateDst ==
  /\ pc = "copyCreate"
  /\ \E ok \in BOOLEAN :
       IF ok
       THEN /\ fs' = WriteFile(fs, StylePath, Empty)
            /\ open' = open \cup {StylePath}
            /\ pc' = "copyIO"
            /\ UNCHANGED <<status, err, envFault>>
       ELSE /\ Fatal("copy")
            /\ envFault' = TRUE
            /\ UNCHANGED fs
  /\ UNCHANGED <<given, sortMemo, filenames, i, postsData, log, prev>>

\* copyFile, lines 248-253: io.Copy, then the deferred Close calls
CopyIO ==
  /\ pc = "copyIO"
  /\ \E ok \in BOOLEAN :
       IF ok
       THEN /\ fs' = WriteFile(fs, StylePath, CssContent)
            /\ open' = {}
            /\ Done(<<"copy", 0>>)
            /\ pc' = "glob"
            /\ UNCHANGED <<status, err, envFault>>
       ELSE /\ fs' = WriteFile(fs, StylePath, Partial)
            /\ Fatal("copy")
            /\ envFault' = TRUE
            /\ UNCHANGED log
  /\ UNCHANGED <<given, sortMemo, filenames, i, postsData, prev>>

\* getAllpostData, lines 90-95
GlobPosts ==
  /\ pc = "glob"
  /\ filenames' = Glob(nPosts)
  /\ postsData' = <<>>
  /\ i' = 1
  /\ pc' = IF nPosts = 0 THEN "sort" ELSE "load"
  /\ UNCHANGED <<given, sortMemo, fs, open, status, err, log, envFault, prev>>

\* (variant: each post page is written as soon as its post is loaded)
LoadPostAndRender ==
  /\ pc = "load"
  /\ IF bad = i
     THEN /\ \E e \in {"read", "parse", "convert"} : Fatal(e)
          /\ UNCHANGED <<postsData, i, log, fs>>
     ELSE /\ postsData' = Append(postsData, WithSlug(getpostData(i), SlugOf(filenames[i])))
          /\ fs' = WriteFile(fs, PostPath(WithSlug(getpostData(i), SlugOf(filenames[i]))),
                             PostPage(WithSlug(getpostData(i), SlugOf(filenames[i]))))
          /\ log' = log \o << <<"load", i>>, <<"post", i>> >>
          /\ i' = i + 1
          /\ pc' = IF i = Len(filenames) THEN "sort" ELSE "load"
          /\ UNCHANGED <<status, err, open>>
  /\ UNCHANGED <<given, sortMemo, filenames, envFault, prev>>

\* (variant: a post that fails to load is skipped)
LoadPostSkipBad ==
  /\ pc = "load"
  /\ IF bad = i
     THEN UNCHANGED <<postsData, log>>
     ELSE /\ postsData' = Append(postsData, WithSlug(getpostData(i), SlugOf(filenames[i])))
          /\ Done(<<"load", i>>)
  /\ i' = i + 1
  /\ pc' = IF i = Len(filenames) THEN "sort" ELSE "load"
  /\ UNCHANGED <<given, sortMemo, fs, filenames, envFault, prev, status, err, open>>

\* getAllpostData, lines 97-124: one iteration (Read opens, reads and
\* closes the file; then getpostData and Convert)
LoadPost ==
  /\ pc = "load"
  /\ IF bad = i
     THEN /\ \E e \in {"read", "parse", "convert"} : Fatal(e)
          /\ UNCHANGED <<postsData, i, log>>
     ELSE /\ postsData' = Append(postsData, WithSlug(getpostData(i), SlugOf(filenames[i])))
          /\ Done(<<"load", i>>)
          /\ i' = i + 1
          /\ pc' = IF i = Len(filenames) THEN "sort" ELSE "load"
          /\ UNCHANGED <<status, err, open>>
  /\ UNCHANGED <<given, sortMemo, fs, filenames, envFault, prev>>

\* main, lines 69-71
Sort ==
  /\ pc = "sort"
  /\ \E t \in SortSlice(sortMemo, postsData) :
       /\ postsData' = t
       /\ sortMemo' = t
  /\ Done(<<"sort", 0>>)
  /\ pc' = "postTpl"
  /\ UNCHANGED <<given, fs, filenames, i, open, status, err, envFault, prev>>

\* ParsepostsMDToHTML, line 144
PostTemplate ==
  /\ pc = "postTpl"
  /\ \E ok \in BOOLEAN :
       IF ok
       THEN /\ i' = 1
            /\ pc' = IF Len(postsData) = 0 THEN "postsReturn" ELSE "postCreate"
            /\ UNCHANGED <<status, err, open, envFault>>
       ELSE /\ Panic("postTemplate")
            /\ envFault' = TRUE
            /\ UNCHANGED i
  /\ UNCHANGED <<given, sortMemo, fs, filenames, postsData, log, prev>>

\* ParsepostsMDToHTML, lines 148-153: the handle stays open (defer)
PostCreate ==
  /\ pc = "postCreate"
  /\ \E ok \in BOOLEAN :
       IF ok
       THEN /\ fs' = WriteFile(fs, PostPath(postsData[i]), Empty)
            /\ open' = open \cup {PostPath(postsData[i])}
            /\ pc' = "postExec"
            /\ UNCHANGED <<status, err, envFault>>
       ELSE /\ Fatal("postCreate")
            /\ envFault' = TRUE
            /\ UNCHANGED fs
  /\ UNCHANGED <<given, sortMemo, filenames, i, postsData, log, prev>>

\* (variant: a failed template execution is recorded and the loop goes on)
PostExecuteIgnoreErr ==
  /\ pc = "postExec"
  /\ \E ok \in BOOLEAN :
       IF ok
       THEN /\ fs' = WriteFile(fs, PostPath(postsData[i]), PostPage(postsData[i]))
            /\ Done(<<"post", postsData[i].content>>)
            /\ UNCHANGED <<err, envFault>>
       ELSE /\ fs' = WriteFile(fs, PostPath(postsData[i]), Partial)
            /\ err' = "postExecute"
            /\ envFault' = TRUE
            /\ UNCHANGED log
  /\ i' = i + 1
  /\ pc' = IF i = Len(postsData) THEN "postsReturn" ELSE "postCreate"
  /\ UNCHANGED <<given, sortMemo, filenames, postsData, prev, status, open>>

\* ParsepostsMDToHTML, lines 155-160
PostExecute ==
  /\ pc = "postExec"
  /\ \E ok \in BOOLEAN :
       IF ok
       THEN /\ fs' = WriteFile(fs, PostPath(postsData[i]), PostPage(postsData[i]))
            /\ Done(<<"post", postsData[i].content>>)
            /\ i' = i + 1
            /\ pc' = IF i = Len(postsData) THEN "postsReturn" ELSE "postCreate"
            /\ UNCHANGED <<status, err, open, envFault>>
       ELSE /\ fs' = WriteFile(fs, PostPath(postsData[i]), Partial)
            /\ Fatal("postExecute")
            /\ envFault' = TRUE
            /\ UNCHANGED <<i, log>>
  /\ UNCHANGED <<given, sortMemo, filenames, postsData, prev>>

\* ParsepostsMDToHTML, line 161: return nil runs every deferred Close
PostsReturn ==
  /\ pc = "postsReturn"
  /\ open' = {}
  /\ pc' = "indexTpl"
  /\ UNCHANGED <<given, sortMemo, fs, filenames, i, postsData, status, err, log,
                 envFault, prev>>

\* ParseIndexTemplateToHTML, line 170
IndexTemplate ==
  /\ pc = "indexTpl"
  /\ \E ok \in BOOLEAN :
       IF ok
       THEN /\ pc' = "indexCreate"
            /\ UNCHANGED <<status, err, open, envFault>>
       ELSE /\ Panic("indexTemplate")
            /\ envFault' = TRUE
  /\ UNCHANGED <<given, sortMemo, fs, filenames, i, postsData, log, prev>>

\* ParseIndexTemplateToHTML, lines 172-177
IndexCreate ==
  /\ pc = "indexCreate"
  /\ \E ok \in BOOLEAN :
       IF ok
       THEN /\ fs' = WriteFile(fs, IndexPath, Empty)
            /\ open' = open \cup {IndexPath}
            /\ pc' = "indexExec"
            /\ UNCHANGED <<status, err, envFault>>
       ELSE /\ Fatal("indexCreate")
            /\ envFault' = TRUE
            /\ UNCHANGED fs
  /\ UNCHANGED <<given, sortMemo, filenames, i, postsData, log, prev>>

\* ParseIndexTemplateToHTML, lines 179-189
IndexExecute ==
  /\ pc = "indexExec"
  /\ \E ok \in BOOLEAN :
       IF ok
       THEN /\ fs' = WriteFile(fs, IndexPath, IndexPage(postsData))
            /\ open' = open \ {IndexPath}
            /\ Done(<<"index", 0>>)
            /\ pc' = "aboutTpl"
            /\ UNCHANGED <<status, err, envFault>>
       ELSE /\ fs' = WriteFile(fs, IndexPath, Partial)
            /\ Fatal("indexExecute")
            /\ envFault' = TRUE
            /\ UNCHANGED log
  /\ UNCHANGED <<given, sortMemo, filenames, i, postsData, prev>>

\* ParseAboutPage, lines 193-197
AboutTemplate ==
  /\ pc = "aboutTpl"
  /\ \E ok \in BOOLEAN :
       IF ok
       THEN /\ pc' = "aboutCreate"
            /\ UNCHANGED <<status, err, open, envFault>>
       ELSE /\ Panic("aboutTemplate")
            /\ envFault' = TRUE
  /\ UNCHANGED <<given, sortMemo, fs, filenames, i, postsData, log, prev>>

\* ParseAboutPage, lines 199-204
AboutCreate ==
  /\ pc = "aboutCreate"
  /\ \E ok \in BOOLEAN :
       IF ok
       THEN /\ fs' = WriteFile(fs, AboutPath, Empty)
            /\ open' = open \cup {AboutPath}
            /\ pc' = "aboutExec"
            /\ UNCHANGED <<status, err, envFault>>
       ELSE /\ Fatal("aboutCreate")
            /\ envFault' = TRUE
            /\ UNCHANGED fs
  /\ UNCHANGED <<given, sortMemo, filenames, i, postsData, log, prev>>

\* ParseAboutPage, lines 206-214, and main, lines 84-87
AboutExecute ==
  /\ pc = "aboutExec"
  /\ \E ok \in BOOLEAN :
       IF ok
       THEN /\ fs' = WriteFile(fs, AboutPath, AboutContent)
            /\ Done(<<"about", 0>>)
            /\ pc' = "exit"
            /\ status' = ExitOK
            /\ open' = {}
            /\ UNCHANGED <<err, envFault>>
       ELSE /\ fs' = WriteFile(fs, AboutPath, Partial)
            /\ Fatal("aboutExecute")
            /\ envFault' = TRUE
            /\ UNCHANGED log
  /\ UNCHANGED <<given, sortMemo, filenames, i, postsData, prev>>

\* the build is invoked again on the same inputs
Rerun ==
  /\ pc = "exit"
  /\ prev' = [valid |-> TRUE, fs |-> IF envFault THEN NoTree ELSE fs,
               status |-> status, envFault |-> envFault]
  /\ hadFiles' = (DOMAIN fs.files # {})
  /\ pc' = "removeAll"
  /\ filenames' = <<>>
  /\ i' = 1
  /\ postsData' = <<>>
  /\ open' = {}
  /\ status' = ExitOK
  /\ err' = "none"
  /\ log' = <<>>
  /\ envFault' = FALSE
  /\ UNCHANGED <<nPosts, dates, bad, cssPresent, sortMemo, fs>>

Next ==
  \/ RemoveAll
  \/ MkdirAll
  \/ Mkdir
  \/ CopyOpenSrc
  \/ CopyCreateDst
  \/ CopyIO
  \/ GlobPosts
  \/ LoadPost
  \/ Sort
  \/ PostTemplate
  \/ PostCreate
  \/ PostExecute
  \/ PostsReturn
  \/ IndexTemplate
  \/ IndexCreate
  \/ IndexExecute
  \/ AboutTemplate
  \/ AboutCreate
  \/ AboutExecute
  \/ Rerun

Spec == Init /\ [][Next]_vars


(* ======================== properties of the build ====================== *)
\* the post file k as a loaded record, and the page path of post file k
Loaded(k) == [slug |-> Stem(k), date |-> dates[k], content |-> k]
ExpectedPostPath(k) == PublicPostsDir \o <<"/">> \o Stem(k) \o HtmlSuffix
ExpectedPostPaths == {ExpectedPostPath(k) : k \in 1 .. nPosts}
PostFiles(f) == {q \in DOMAIN f.files : HasPrefix(q, PublicPostsDir \o <<"/">>)}
HasFile(path, kind) == path \in DOMAIN fs.files /\ fs.files[path].kind = kind
DistinctDates == \A j \in 1 .. nPosts : \A k \in 1 .. nPosts : j # k => dates[j] # dates[k]
Happened(op) == \E k \in 1 .. Len(log) : log[k][1] = op
AtExit == pc = "exit"

\* C1: with pairwise distinct dates, the posts handed to the index page are
\* in strictly descending date order and are a permutation of the loaded
\* posts (none dropped, none duplicated).
C1_IndexDescending ==
  (HasFile(IndexPath, "index") /\ DistinctDates) =>
    LET ps == fs.files[IndexPath].posts IN
      /\ \A k \in 1 .. Len(ps) - 1 : ps[k].date > ps[k + 1].date
      /\ Len(ps) = nPosts
      /\ {ps[k].content : k \in 1 .. Len(ps)} = 1 .. nPosts
      /\ \A k \in 1 .. Len(ps) : ps[k] = Loaded(ps[k].content)
\* an index of at least two posts whose discovery order is not the date order
C1_Witness ==
  /\ HasFile(IndexPath, "index")
  /\ DistinctDates
  /\ nPosts >= 2
  /\ dates[1] < dates[2]

\* C2: the page of post file posts/<name>.md is written to exactly
\* public/posts/<name>.html, whatever slug the front-matter gives, and
\* distinct post files get distinct pages.
C2_PostPagePath ==
  /\ \A k \in 1 .. Len(log) :
       log[k][1] = "post" =>
         /\ HasFile(ExpectedPostPath(log[k][2]), "post")
         /\ fs.files[ExpectedPostPath(log[k][2])] = PostPage(Loaded(log[k][2]))
  /\ (pc = "postsReturn" =>
        /\ PostFiles(fs) = ExpectedPostPaths
        /\ Cardinality(PostFiles(fs)) = nPosts)
  /\ \A k \in 1 .. Len(filenames) :
       PostsPrefix \o SlugOf(filenames[k]) \o MdSuffix = filenames[k]
\* every page of three posts written, one of them named a.md.md
C2_Witness ==
  /\ pc = "postsReturn"
  /\ nPosts >= 3
  /\ HasFile(PublicPostsDir \o <<"/", "a", ".", "m", "d">> \o HtmlSuffix, "post")

\* C3: after a successful run the output directory holds exactly style.css,
\* index.html, about.html and one page per discovered post, whatever it
\* held before the run.
C3_ExactOutput ==
  (AtExit /\ status = ExitOK) =>
    /\ fs.dirs = {PublicDir, PublicPostsDir}
    /\ DOMAIN fs.files = {StylePath, IndexPath, AboutPath} \cup ExpectedPostPaths
    /\ fs.files[StylePath] = CssContent
    /\ fs.files[AboutPath] = AboutContent
    /\ fs.files[IndexPath].kind = "index"
    /\ \A k \in 1 .. nPosts : fs.files[ExpectedPostPath(k)] = PostPage(Loaded(k))
\* a successful run that started on the leftovers of a failed one
C3_Witness ==
  /\ AtExit
  /\ status = ExitOK
  /\ nPosts >= 1
  /\ hadFiles
  /\ prev.valid
  /\ prev.status # ExitOK

C5_MissingStylesheet ==
  (AtExit /\ ~cssPresent /\ ~envFault) =>
    /\ status # ExitOK
    /\ err = "copy"
    /\ fs = EmptyTree
    /\ filenames = <<>>
    /\ postsData = <<>>
    /\ ~Happened("load")
    /\ ~Happened("post")
\* the abort, with posts waiting and a full tree left by the user
C5_Witness ==
  /\ AtExit
  /\ ~cssPresent
  /\ err = "copy"
  /\ nPosts >= 2
  /\ hadFiles

\* the pipeline stage of a completed step and of a failed step
StageOf(op) ==
  CASE op = "removeAll" -> 1
    [] op = "mkdirAll" -> 2
    [] op = "mkdir" -> 3
    [] op = "copy" -> 4
    [] op \in {"load", "read", "parse", "convert"} -> 5
    [] op = "sort" -> 6
    [] op \in {"post", "postTemplate", "postCreate", "postExecute"} -> 7
    [] op \in {"index", "indexTemplate", "indexCreate", "indexExecute"} -> 8
    [] op \in {"about", "aboutTemplate", "aboutCreate", "aboutExecute"} -> 9
CountOf(op) == Cardinality({k \in 1 .. Len(log) : log[k][1] = op})

\* C6: the exit status is zero exactly when every step up to the about page
\* completed; when a step fails the status is non-zero and no later step of
\* the pipeline has run.
C6_FailFast ==
  /\ (pc # "exit" => err = "none")
  /\ AtExit =>
       /\ (status = ExitOK) <=> (err = "none")
       /\ (err = "none") <=> Happened("about")
       /\ err # "none" =>
            /\ status \in {ExitFatal, ExitPanic}
            /\ \A k \in 1 .. Len(log) :
                 \/ StageOf(log[k][1]) < StageOf(err)
                 \/ StageOf(log[k][1]) = StageOf(err) /\ StageOf(err) \in {5, 7}
            /\ StageOf(err) = 5 => CountOf("load") < nPosts
            /\ StageOf(err) = 7 => CountOf("post") < nPosts \/ err = "postTemplate"
            /\ (StageOf(err) <= 7 /\ Happened("removeAll")) =>
                 IndexPath \notin DOMAIN fs.files
            /\ (StageOf(err) <= 8 /\ Happened("removeAll")) =>
                 AboutPath \notin DOMAIN fs.files
\* a failed render of the second post page
C6_Witness ==
  /\ AtExit
  /\ err = "postExecute"
  /\ CountOf("post") = 1
  /\ nPosts >= 2

\* the order of steps of a run over n posts, rendered in the order ps
ExpectedOrder(n, ps) ==
  << <<"removeAll", 0>>, <<"mkdirAll", 0>>, <<"mkdir", 0>>, <<"copy", 0>> >>
    \o [k \in 1 .. n |-> <<"load", k>>]
    \o << <<"sort", 0>> >>
    \o [k \in 1 .. Len(ps) |-> <<"post", ps[k].content>>]
    \o << <<"index", 0>>, <<"about", 0>> >>

\* C7: the steps of every run occur in the order remove, create, copy, load
\* all, sort, render posts, index, about: no post is read before the copy
\* succeeded, no page written before all posts are loaded and sorted, the
\* index only after every post page, the about page only after the index.
C7_StepOrder ==
  /\ Len(log) <= Len(ExpectedOrder(nPosts, postsData))
  /\ \A k \in 1 .. Len(log) : log[k] = ExpectedOrder(nPosts, postsData)[k]
  /\ (pc = "load" => HasFile(StylePath, "css"))
  /\ (Happened("removeAll") /\ PostFiles(fs) # {}) =>
       /\ Len(postsData) = nPosts
       /\ postsData \in SortOutcomes(postsData)
  /\ (Happened("removeAll") /\ IndexPath \in DOMAIN fs.files) =>
       \A k \in 1 .. nPosts : HasFile(ExpectedPostPath(k), "post")
  /\ (Happened("removeAll") /\ AboutPath \in DOMAIN fs.files) =>
       HasFile(IndexPath, "index")
\* the about page being written in a run over two posts
C7_Witness ==
  /\ pc = "aboutExec"
  /\ nPosts >= 2
  /\ Len(log) = 8 + nPosts

\* C8: posts of equal date keep their discovery order in the sorted list.
C8_StableSort ==
  Happened("sort") =>
    \A j \in 1 .. Len(postsData) : \A k \in 1 .. Len(postsData) :
      (j < k /\ postsData[j].date = postsData[k].date) =>
        postsData[j].content < postsData[k].content

\* the handles the operation in progress may hold
HandlesInUse ==
  CASE pc = "copyCreate" -> {StyleSrcPath}
    [] pc = "copyIO" -> {StyleSrcPath, StylePath}
    [] pc = "postExec" -> {PostPath(postsData[i])}
    [] pc = "indexExec" -> {IndexPath}
    [] pc = "aboutExec" -> {AboutPath}
    [] OTHER -> {}
\* two posts of one date, sorted against their discovery order
C8_Reordered ==
  /\ Happened("sort")
  /\ Len(postsData) >= 2
  /\ postsData[1].date = postsData[2].date
  /\ postsData[1].content > postsData[2].content

\* C9: the only open handles are those of the operation in progress; while
\* post page k+1 is created and written the handle of page k is closed.
C9_HandlesScoped == open \subseteq HandlesInUse

\* C10: when a post fails to load the build aborts with no post page, no
\* index and no about page: the output directory holds style.css and an
\* empty posts subdirectory.
C10_NoPartialSuccess ==
  /\ (AtExit /\ bad # 0 /\ cssPresent /\ ~envFault) =>
       err \in {"read", "parse", "convert"}
  /\ (AtExit /\ err \in {"read", "parse", "convert"}) =>
       /\ status # ExitOK
       /\ fs.dirs = {PublicDir, PublicPostsDir}
       /\ DOMAIN fs.files = {StylePath}
       /\ fs.files[StylePath] = CssContent
       /\ ~Happened("post")
\* the second post fails after the first one loaded
C10_Witness ==
  /\ AtExit
  /\ err = "parse"
  /\ bad >= 2
  /\ CountOf("load") = bad - 1

====
